---- MODULE Spec2Model ----
(***************************************************************************)
(* The recording / transcription / analysis state machine of the meeting   *)
(* assistant: the useAudioRecorder hook (src/hooks/useAudioRecorder.ts),   *)
(* the App component that drives it (src/App.tsx) and the entry guards of  *)
(* the Gemini service (src/services/geminiService.ts).                     *)
(*                                                                         *)
(* Every action is one JavaScript task: a click handler, the continuation  *)
(* of an await, a timer callback or a media event.  React state has two    *)
(* faces: the value last set (the variables fullTranscript, isAnalyzing,   *)
(* ...) and the value of the last render, which is what the closures of    *)
(* that render (click handlers, the effect, triggerAnalysis) read; the     *)
(* latter is the record `rendered`.  A click is a discrete event: React    *)
(* renders synchronously at its end.  State set from a continuation, a     *)
(* timer or an effect is rendered by a later task, the action Render.      *)
(*                                                                         *)
(* Environment assumptions: the platform constructors (AudioContext,       *)
(* MediaRecorder) do not throw, and a MediaRecorder stops only when        *)
(* stop() is called on it.                                                 *)
(***************************************************************************)
EXTENDS Integers, Sequences, FiniteSets, TLC

\* ---------------------------------------------------------------- bounds
MaxSessions == 2        \* startChunkLoop invocations that pass the guard
MaxRecorders == 2       \* MediaRecorder objects created
MaxAnalyses == 2        \* analyzeTranscript requests in flight at once
MaxAppSessions == 1     \* invocations under SpecApp

\* ------------------------------------------------------------- constants
ANALYSIS_TRIGGER_LENGTH == 150

Sessions == 1..MaxSessions
Recorders == 1..MaxRecorders
Analyses == 1..MaxAnalyses

\* ------------------------------------------------------------------ text
\* A string is the sequence of its runs: Run(c, n) is the character c repeated
\* n >= 1 times, and neighbouring runs hold different characters, so that two
\* strings are equal exactly when their sequences are.
Run(c, n) == [char |-> c, count |-> n]

\* String.prototype.length
RECURSIVE Length(_)
Length(s) == IF s = <<>> THEN 0 ELSE Head(s).count + Length(Tail(s))

\* the + of strings
Concat(s, t) ==
    IF s # <<>> /\ t # <<>> /\ s[Len(s)].char = Head(t).char
    THEN SubSeq(s, 1, Len(s) - 1)
             \o <<Run(Head(t).char, s[Len(s)].count + Head(t).count)>>
             \o Tail(t)
    ELSE s \o t

IsWhitespace(c) == c \in {" ", "\n", "\t"}

RECURSIVE TrimStart(_)
TrimStart(s) ==
    IF s # <<>> /\ IsWhitespace(Head(s).char) THEN TrimStart(Tail(s)) ELSE s

RECURSIVE TrimEnd(_)
TrimEnd(s) ==
    IF s # <<>> /\ IsWhitespace(s[Len(s)].char)
    THEN TrimEnd(SubSeq(s, 1, Len(s) - 1))
    ELSE s

\* String.prototype.trim
Trim(s) == TrimEnd(TrimStart(s))

\* The texts the transcription service may answer with (response.text):
\* nothing, whitespace only, a line with surrounding whitespace that with its
\* separator grows the transcript by exactly the trigger length, and a line
\* that grows it by one more.
ResponseTexts ==
    { <<>>,
      <<Run(" ", 1), Run("\n", 1)>>,
      <<Run(" ", 2), Run("b", ANALYSIS_TRIGGER_LENGTH - 1), Run("\n", 1)>>,
      <<Run("a", ANALYSIS_TRIGGER_LENGTH)>> }

\* The markdown the analysis service may answer with (response.text || "")
AnalysisTexts == {"", "md"}

VARIABLES
    \* environment
    apiKey,             \* process.env.API_KEY is set
    displaySupported,   \* navigator.mediaDevices.getDisplayMedia exists
    \* useAudioRecorder
    recordingState,     \* useState: "IDLE" | "RECORDING"
    isRecordingRef,
    mediaRecorderRef,   \* 0 (null) or a recorder
    audioContextRef,    \* 0 (null) or the session whose AudioContext it is
    streamTracksRef,    \* set of <<session, kind>>
    sessions,           \* the startChunkLoop invocations and their locals
    recorders,          \* the MediaRecorder objects and their clips
    \* App
    transcriptChunks,
    fullTranscript,
    analysisResult,
    isAnalyzing,
    lastAnalyzedLength,
    enableSystemAudio,
    analyses,           \* the analyzeTranscript requests
    rendered,           \* the state as of the last render
    \* history
    clearedClips        \* the recorders made before handleClear last ran

envVars == <<apiKey, displaySupported>>
hookVars == <<recordingState, isRecordingRef, mediaRecorderRef, audioContextRef,
              streamTracksRef, sessions, recorders>>
appVars == <<transcriptChunks, fullTranscript, analysisResult, isAnalyzing,
             lastAnalyzedLength, enableSystemAudio, analyses, rendered>>
vars == <<envVars, hookVars, appVars, clearedClips>>

\* ------------------------------------------------------------ the service
\* (a check that never throws)
checkApiKey_never(key) == FALSE

\* checkApiKey: throws when the key is missing
checkApiKey(key) == ~key

\* analyzeTranscript up to its first await: what the call does with its input
analyzeTranscript(key, transcript) ==
    IF checkApiKey(key) THEN "keyMissing"
    ELSE IF Trim(transcript) = <<>> THEN "empty"
    ELSE "request"

\* transcribeAudio up to its first await: thrown out, or waiting for
\* blobToBase64 and generateContent
transcribeAudio(key) ==
    IF checkApiKey(key) THEN "keyMissing" ELSE "inflight"

\* response.text?.trim() || ""
TranscriptionText(raw) == Trim(raw)

\* ------------------------------------------------------------- the hook
TrackKinds == {"video", "audio", "mic"}

\* A startChunkLoop invocation that has not happened yet
NoSession ==
    [ pc               |-> "unused",  \* unused | awaitDisplay | awaitMic | looping | failed
      displayRequested |-> FALSE,     \* getDisplayMedia was called
      usingScreenAudio |-> FALSE,
      tracks           |-> [k \in TrackKinds |-> "none"],  \* none | live | stopped
      ctx              |-> "none",    \* its AudioContext: none | running | closed
      mix              |-> {},        \* the sources connected to dest
      errors           |-> 0,         \* onError(..., 'error') calls it made
      interrupted      |-> FALSE ]    \* stopRecording ran while it was awaiting a prompt

\* A MediaRecorder that has not been created yet
NoRecorder ==
    [ state      |-> "unused",    \* unused | recording | inactive
      session    |-> 0,           \* the invocation whose recordSegment made it
      timer      |-> FALSE,       \* its setTimeout callback is pending
      stopEvt    |-> FALSE,       \* its stop event is queued
      data       |-> FALSE,       \* its blob has size > 0
      chunkCalls |-> 0,           \* onAudioChunk calls made with its blob
      transcribeCalls |-> 0,      \* transcribeAudio calls made with its blob
      clip       |-> "none" ]     \* none | inflight | ok | dropped | keyMissing

FreeSession(ss) ==
    IF \E s \in Sessions : ss[s].pc = "unused"
    THEN CHOOSE s \in Sessions :
             ss[s].pc = "unused" /\ \A t \in Sessions : t < s => ss[t].pc # "unused"
    ELSE 0

FreeRecorder(rs) ==
    IF \E r \in Recorders : rs[r].state = "unused"
    THEN CHOOSE r \in Recorders :
             rs[r].state = "unused" /\ \A t \in Recorders : t < r => rs[t].state # "unused"
    ELSE 0

\* (a setup that never gives up)
NoSource_never(usingScreenAudio, mic) == FALSE

\* line 87: neither source was obtained
NoSource(usingScreenAudio, mic) == ~usingScreenAudio /\ ~mic

\* (a mix that leaves the microphone out when the screen is shared)
MixSources_screenFirst(usingScreenAudio, mic) ==
    IF usingScreenAudio THEN {"screen"} ELSE IF mic THEN {"mic"} ELSE {}

\* lines 99-109: the sources connected to the destination node
MixSources(usingScreenAudio, mic) ==
    (IF usingScreenAudio THEN {"screen"} ELSE {}) \cup (IF mic THEN {"mic"} ELSE {})

\* lines 112-115: the tracks kept for stopRecording
SessionTracks(s, usingScreenAudio, mic) ==
    (IF usingScreenAudio THEN {<<s, "video">>, <<s, "audio">>} ELSE {})
        \cup (IF mic THEN {<<s, "mic">>} ELSE {})

\* lines 121-122: the guards of recordSegment
RecordSegmentRuns(isRecording, ctxState) == isRecording /\ ctxState # "closed"

\* (a timer callback that never goes on)
ContinueLoop_never(isRecording) == FALSE

\* line 152: the timer callback goes on to the next segment
ContinueLoop(isRecording) == isRecording

\* (an onstop that passes every blob on)
BlobNonEmpty_always(data) == TRUE

\* line 140: the blob is passed on
BlobNonEmpty(data) == data

\* recordSegment for session s, on the recorders rs
recordSegment(rs, s, isRecording, ctxState) ==
    IF RecordSegmentRuns(isRecording, ctxState)
    THEN [rs EXCEPT ![FreeRecorder(rs)] =
             [NoRecorder EXCEPT !.state = "recording", !.session = s, !.timer = TRUE]]
    ELSE rs

\* line 158: mediaRecorderRef after recordSegment
recorderRefAfter(rs, ref, isRecording, ctxState) ==
    IF RecordSegmentRuns(isRecording, ctxState) THEN FreeRecorder(rs) ELSE ref

\* recorder.stop(): the recorder becomes inactive and its stop event is queued
stopped(rec, d) == [rec EXCEPT !.state = "inactive", !.stopEvt = TRUE, !.data = d]

\* stopRecording, lines 174-176
StoppedRecorders(rs, d) ==
    IF mediaRecorderRef # 0 /\ rs[mediaRecorderRef].state = "recording"
    THEN [rs EXCEPT ![mediaRecorderRef] = stopped(@, d)]
    ELSE rs

\* stopRecording, lines 180-189, on the sessions ss
StoppedSessions(ss) ==
    [s \in Sessions |->
        [ss[s] EXCEPT
            !.tracks = [k \in TrackKinds |->
                           IF <<s, k>> \in streamTracksRef /\ @[k] = "live"
                           THEN "stopped" ELSE @[k]],
            !.ctx = IF audioContextRef = s THEN "closed" ELSE @,
            !.interrupted = @ \/ ss[s].pc \in {"awaitDisplay", "awaitMic"}]]

\* stopRecording
stopRecording(ss, d) ==
    /\ isRecordingRef' = FALSE
    /\ recorders' = StoppedRecorders(recorders, d)
    /\ mediaRecorderRef' = 0
    /\ sessions' = StoppedSessions(ss)
    /\ streamTracksRef' = {}
    /\ audioContextRef' = 0
    /\ recordingState' = "IDLE"

\* startChunkLoop up to its first await (lines 18-39); a no-op while recording
startChunkLoop ==
    IF isRecordingRef
    THEN UNCHANGED hookVars
    ELSE /\ FreeSession(sessions) # 0
         /\ isRecordingRef' = TRUE
         /\ recordingState' = "RECORDING"
         /\ sessions' = [sessions EXCEPT ![FreeSession(sessions)] =
               [NoSession EXCEPT
                   !.pc = IF displaySupported THEN "awaitDisplay" ELSE "awaitMic",
                   !.displayRequested = displaySupported]]
         /\ UNCHANGED <<mediaRecorderRef, audioContextRef, streamTracksRef, recorders>>

DisplayOutcomes == {"audio", "noaudio", "policy", "failed"}

\* getDisplayMedia settles (lines 31-74), then getUserMedia is called
DisplayResult(s, outcome) ==
    /\ sessions[s].pc = "awaitDisplay"
    /\ sessions' = [sessions EXCEPT
           ![s].pc = "awaitMic",
           ![s].usingScreenAudio = (outcome = "audio"),
           ![s].tracks = [k \in TrackKinds |->
                             IF k = "mic" THEN "none"
                             ELSE IF outcome = "audio" THEN "live"
                             ELSE IF outcome = "noaudio" /\ k = "video" THEN "stopped"
                             ELSE "none"]]
    \* App's onError: "System audio blocked" switches the preference off
    /\ enableSystemAudio' = IF outcome = "policy" THEN FALSE ELSE enableSystemAudio
    /\ UNCHANGED <<envVars, clearedClips, recordingState, isRecordingRef, mediaRecorderRef,
                   audioContextRef, streamTracksRef, recorders>>
    /\ UNCHANGED <<transcriptChunks, fullTranscript, analysisResult, isAnalyzing,
                   lastAnalyzedLength, analyses, rendered>>

\* getUserMedia settles (lines 79-161)
MicResult(s, mic, d) ==
    /\ sessions[s].pc = "awaitMic"
    /\ LET using == sessions[s].usingScreenAudio IN
       IF NoSource(using, mic)
       THEN stopRecording([sessions EXCEPT ![s].pc = "failed", ![s].errors = @ + 1], d)
       ELSE /\ RecordSegmentRuns(isRecordingRef, "running") => FreeRecorder(recorders) # 0
            /\ sessions' = [sessions EXCEPT
                   ![s].pc = "looping",
                   ![s].tracks = [@ EXCEPT !["mic"] = IF mic THEN "live" ELSE "none"],
                   ![s].ctx = "running",
                   ![s].mix = MixSources(using, mic)]
            /\ audioContextRef' = s
            /\ streamTracksRef' = SessionTracks(s, using, mic)
            /\ recorders' = recordSegment(recorders, s, isRecordingRef, "running")
            /\ mediaRecorderRef' =
                   recorderRefAfter(recorders, mediaRecorderRef, isRecordingRef, "running")
            /\ UNCHANGED <<recordingState, isRecordingRef>>
    /\ UNCHANGED <<envVars, clearedClips, appVars>>

\* the setTimeout callback of recorder r (lines 148-156)
TimerFires(r, d) ==
    /\ recorders[r].timer
    /\ LET s == recorders[r].session
           cont == recorders[r].state = "recording" /\ ContinueLoop(isRecordingRef)
           rs1 == IF recorders[r].state = "recording"
                  THEN [recorders EXCEPT ![r] = [stopped(@, d) EXCEPT !.timer = FALSE]]
                  ELSE [recorders EXCEPT ![r].timer = FALSE]
       IN /\ (cont /\ RecordSegmentRuns(isRecordingRef, sessions[s].ctx))
                 => FreeRecorder(recorders) # 0
          /\ recorders' = IF cont
                          THEN recordSegment(rs1, s, isRecordingRef, sessions[s].ctx)
                          ELSE rs1
          /\ mediaRecorderRef' =
                 IF cont
                 THEN recorderRefAfter(rs1, mediaRecorderRef, isRecordingRef, sessions[s].ctx)
                 ELSE mediaRecorderRef
    /\ UNCHANGED <<envVars, clearedClips, appVars, recordingState, isRecordingRef, audioContextRef,
                   streamTracksRef, sessions>>

\* screenAudioTrack.onended (lines 64-66): the user stops sharing
ScreenTrackEnded(s, d) ==
    /\ sessions[s].tracks["audio"] = "live"
    /\ stopRecording([sessions EXCEPT
           ![s].tracks = [@ EXCEPT !["audio"] = "stopped", !["video"] = "stopped"]], d)
    /\ UNCHANGED <<envVars, clearedClips, appVars>>

\* -------------------------------------------------------------- the App
\* A slot for an analyzeTranscript request in flight, empty
NoAnalysis ==
    [ status |-> "none",     \* none | inflight
      input  |-> <<>>,       \* the transcript it was given
      auto   |-> FALSE ]     \* started by the effect, not by a click

FreeAnalysis(as) ==
    IF \E a \in Analyses : as[a].status = "none"
    THEN CHOOSE a \in Analyses :
             as[a].status = "none" /\ \A b \in Analyses : b < a => as[b].status # "none"
    ELSE 0

\* The state triggerAnalysis and the effect read and write
AppState ==
    [ fullTranscript     |-> fullTranscript,
      isAnalyzing        |-> isAnalyzing,
      lastAnalyzedLength |-> lastAnalyzedLength,
      analysisResult     |-> analysisResult,
      analyses           |-> analyses ]

\* What a render captures in its closures
View(st, rs, esa) ==
    [ fullTranscript     |-> st.fullTranscript,
      isAnalyzing        |-> st.isAnalyzing,
      lastAnalyzedLength |-> st.lastAnalyzedLength,
      recordingState     |-> rs,
      enableSystemAudio  |-> esa ]

\* (an append without the separator)
AppendTranscript_noSeparator(prev, text) == Concat(prev, text)

\* line 58: setFullTranscript(prev => prev + "\n" + text)
AppendTranscript(prev, text) == Concat(Concat(prev, <<Run("\n", 1)>>), text)

\* line 88: the condition of the effect
ShouldAnalyze(view) ==
    /\ Length(view.fullTranscript) - view.lastAnalyzedLength > ANALYSIS_TRIGGER_LENGTH
    /\ ~view.isAnalyzing

\* line 94: the guard of triggerAnalysis
TriggerProceeds(view) == ~view.isAnalyzing /\ Trim(view.fullTranscript) # <<>>

\* triggerAnalysis of the render `view`, up to its await (lines 93-100); when
\* analyzeTranscript settles without a request, through its finally as well
triggerAnalysis(view, st, auto) ==
    IF ~TriggerProceeds(view) THEN st
    ELSE LET out == analyzeTranscript(apiKey, view.fullTranscript)
             st1 == [st EXCEPT !.lastAnalyzedLength = Length(view.fullTranscript)]
         IN  IF out = "request"
             THEN [st1 EXCEPT
                      !.isAnalyzing = TRUE,
                      !.analyses = [@ EXCEPT ![FreeAnalysis(@)] =
                          [status |-> "inflight", input |-> view.fullTranscript,
                           auto |-> auto]]]
             ELSE IF out = "empty"
             THEN [st1 EXCEPT !.isAnalyzing = FALSE, !.analysisResult = ""]
             ELSE [st1 EXCEPT !.isAnalyzing = FALSE]

\* triggerAnalysis would send a request
TriggerRequests(view) ==
    TriggerProceeds(view) /\ analyzeTranscript(apiKey, view.fullTranscript) = "request"

\* (an effect that does not depend on isAnalyzing)
EffectFires_noFlagDep(prev, view) ==
    /\ <<prev.fullTranscript, prev.lastAnalyzedLength>>
           # <<view.fullTranscript, view.lastAnalyzedLength>>
    /\ ShouldAnalyze(view)

\* lines 84-91: the effect, run by the render `view` that follows the render `prev`
EffectFires(prev, view) ==
    /\ <<prev.fullTranscript, prev.isAnalyzing, prev.lastAnalyzedLength>>
           # <<view.fullTranscript, view.isAnalyzing, view.lastAnalyzedLength>>
    /\ ShouldAnalyze(view)

Effect(prev, view, st) ==
    IF EffectFires(prev, view) THEN triggerAnalysis(view, st, TRUE) ELSE st

Commit(st, view) ==
    /\ fullTranscript' = st.fullTranscript
    /\ isAnalyzing' = st.isAnalyzing
    /\ lastAnalyzedLength' = st.lastAnalyzedLength
    /\ analysisResult' = st.analysisResult
    /\ analyses' = st.analyses
    /\ rendered' = view

\* The render at the end of a click, with its effect and the render that the
\* effect's own state change brings
SyncRender(st, rs, esa) ==
    LET v1 == View(st, rs, esa)
        st2 == Effect(rendered, v1, st)
        v2 == View(st2, rs, esa)
        st3 == Effect(v1, v2, st2)
    IN  /\ (EffectFires(rendered, v1) /\ TriggerRequests(v1))
               => FreeAnalysis(st.analyses) # 0
        /\ (EffectFires(v1, v2) /\ TriggerRequests(v2))
               => FreeAnalysis(st2.analyses) # 0
        /\ Commit(st3, View(st3, rs, esa))

\* A render brought by state set outside a click, and its effect
Render ==
    LET v1 == View(AppState, recordingState, enableSystemAudio) IN
    /\ rendered # v1
    /\ (EffectFires(rendered, v1) /\ TriggerRequests(v1)) => FreeAnalysis(analyses) # 0
    /\ Commit(Effect(rendered, v1, AppState), v1)
    /\ UNCHANGED <<envVars, clearedClips, hookVars, transcriptChunks, enableSystemAudio>>

\* handleToggleRecording while the page shows IDLE (line 114)
StartRecordingClick ==
    /\ rendered.recordingState # "RECORDING"
    /\ startChunkLoop
    /\ SyncRender(AppState, IF isRecordingRef THEN recordingState ELSE "RECORDING",
                  enableSystemAudio)
    /\ UNCHANGED <<envVars, clearedClips, transcriptChunks, enableSystemAudio>>

\* handleToggleRecording while the page shows RECORDING (lines 110-112)
StopRecordingClick(d) ==
    /\ rendered.recordingState = "RECORDING"
    /\ stopRecording(sessions, d)
    /\ TriggerRequests(rendered) => FreeAnalysis(analyses) # 0
    /\ SyncRender(triggerAnalysis(rendered, AppState, FALSE), "IDLE", enableSystemAudio)
    /\ UNCHANGED <<envVars, clearedClips, transcriptChunks, enableSystemAudio>>

\* handleClear (lines 118-125)
ClearClick(d) ==
    /\ IF rendered.recordingState = "RECORDING"
       THEN stopRecording(sessions, d)
       ELSE UNCHANGED hookVars
    /\ transcriptChunks' = <<>>
    /\ SyncRender([AppState EXCEPT !.fullTranscript = <<>>, !.analysisResult = "",
                                   !.lastAnalyzedLength = 0],
                  IF rendered.recordingState = "RECORDING" THEN "IDLE" ELSE recordingState,
                  enableSystemAudio)
    /\ clearedClips' = {r \in Recorders : recorders[r].state # "unused"}
    /\ UNCHANGED <<envVars, enableSystemAudio>>

\* the Force Analyze button (lines 238-240), clickable unless disabled
ForceAnalyzeClick ==
    /\ ~(Trim(rendered.fullTranscript) = <<>> \/ rendered.isAnalyzing)
    /\ TriggerRequests(rendered) => FreeAnalysis(analyses) # 0
    /\ SyncRender(triggerAnalysis(rendered, AppState, FALSE), recordingState,
                  enableSystemAudio)
    /\ UNCHANGED <<envVars, clearedClips, hookVars, transcriptChunks, enableSystemAudio>>

\* toggleAudioSource (lines 127-134)
ToggleAudioSourceClick ==
    /\ enableSystemAudio' = ~enableSystemAudio
    /\ SyncRender(AppState, recordingState, ~enableSystemAudio)
    /\ UNCHANGED <<envVars, clearedClips, hookVars, transcriptChunks>>

\* recorder.onstop (lines 138-143), handleAudioChunk and processAudioChunk up
\* to the first await of transcribeAudio
RecorderOnStop(r) ==
    /\ recorders[r].stopEvt
    /\ recorders' = [recorders EXCEPT ![r] =
           IF BlobNonEmpty(@.data)
           THEN [@ EXCEPT !.stopEvt = FALSE,
                          !.chunkCalls = @ + 1,
                          !.transcribeCalls = @ + 1,
                          !.clip = transcribeAudio(apiKey)]
           ELSE [@ EXCEPT !.stopEvt = FALSE]]
    /\ UNCHANGED <<envVars, clearedClips, appVars, recordingState, isRecordingRef, mediaRecorderRef,
                   audioContextRef, streamTracksRef, sessions>>

\* blobToBase64 or generateContent fails: transcribeAudio throws (lines 90-99),
\* processAudioChunk catches (lines 59-66) and the clip adds nothing
TranscriptionFails(r) ==
    /\ recorders[r].clip = "inflight"
    /\ recorders' = [recorders EXCEPT ![r].clip = "dropped"]
    /\ UNCHANGED <<envVars, clearedClips, appVars, recordingState, isRecordingRef, mediaRecorderRef,
                   audioContextRef, streamTracksRef, sessions>>

\* generateContent answers `raw`: processAudioChunk, lines 46-58
TranscriptionReturns(r, raw) ==
    /\ recorders[r].clip = "inflight"
    /\ LET text == TranscriptionText(raw) IN
       IF text = <<>>
       THEN /\ recorders' = [recorders EXCEPT ![r].clip = "dropped"]
            /\ UNCHANGED <<transcriptChunks, fullTranscript>>
       ELSE /\ recorders' = [recorders EXCEPT ![r].clip = "ok"]
            /\ transcriptChunks' = Append(transcriptChunks, [text |-> text, clip |-> r])
            /\ fullTranscript' = AppendTranscript(fullTranscript, text)
    /\ UNCHANGED <<envVars, clearedClips, recordingState, isRecordingRef, mediaRecorderRef,
                   audioContextRef, streamTracksRef, sessions, analysisResult,
                   isAnalyzing, lastAnalyzedLength, enableSystemAudio, analyses, rendered>>

\* analyzeTranscript's request settles: triggerAnalysis, lines 100-106
AnalysisFails(a) ==
    /\ analyses[a].status = "inflight"
    /\ analyses' = [analyses EXCEPT ![a] = NoAnalysis]
    /\ isAnalyzing' = FALSE
    /\ UNCHANGED <<envVars, clearedClips, hookVars, transcriptChunks, fullTranscript, analysisResult,
                   lastAnalyzedLength, enableSystemAudio, rendered>>

AnalysisReturns(a, md) ==
    /\ analyses[a].status = "inflight"
    /\ analyses' = [analyses EXCEPT ![a] = NoAnalysis]
    /\ analysisResult' = md
    /\ isAnalyzing' = FALSE
    /\ UNCHANGED <<envVars, clearedClips, hookVars, transcriptChunks, fullTranscript,
                   lastAnalyzedLength, enableSystemAudio, rendered>>

\* ------------------------------------------------------- the state machine
Init ==
    /\ apiKey \in BOOLEAN
    /\ displaySupported \in BOOLEAN
    /\ recordingState = "IDLE"
    /\ isRecordingRef = FALSE
    /\ mediaRecorderRef = 0
    /\ audioContextRef = 0
    /\ streamTracksRef = {}
    /\ sessions = [s \in Sessions |-> NoSession]
    /\ recorders = [r \in Recorders |-> NoRecorder]
    /\ transcriptChunks = <<>>
    /\ fullTranscript = <<>>
    /\ analysisResult = ""
    /\ isAnalyzing = FALSE
    /\ lastAnalyzedLength = 0
    /\ enableSystemAudio \in BOOLEAN
    /\ analyses = [a \in Analyses |-> NoAnalysis]
    /\ rendered = [ fullTranscript |-> <<>>, isAnalyzing |-> FALSE,
                    lastAnalyzedLength |-> 0, recordingState |-> "IDLE",
                    enableSystemAudio |-> enableSystemAudio ]
    /\ clearedClips = {}

\* Whether a stopped recorder has recorded anything (blob.size > 0) is the
\* platform's choice; it is a choice only where a recorder is stopped.
StopData ==
    IF mediaRecorderRef # 0 /\ recorders[mediaRecorderRef].state = "recording"
    THEN BOOLEAN ELSE {FALSE}

TimerData(r) == IF recorders[r].state = "recording" THEN BOOLEAN ELSE {FALSE}

Next ==
    \/ StartRecordingClick
    \/ \E d \in StopData : StopRecordingClick(d)
    \/ \E d \in StopData : ClearClick(d)
    \/ ForceAnalyzeClick
    \/ ToggleAudioSourceClick
    \/ \E s \in Sessions, o \in DisplayOutcomes : DisplayResult(s, o)
    \/ \E s \in Sessions, mic \in BOOLEAN, d \in StopData : MicResult(s, mic, d)
    \/ \E r \in Recorders : \E d \in TimerData(r) : TimerFires(r, d)
    \/ \E s \in Sessions, d \in StopData : ScreenTrackEnded(s, d)
    \/ \E r \in Recorders : RecorderOnStop(r)
    \/ \E r \in Recorders : TranscriptionFails(r)
    \/ \E r \in Recorders, raw \in ResponseTexts : TranscriptionReturns(r, raw)
    \/ \E a \in Analyses : AnalysisFails(a)
    \/ \E a \in Analyses, md \in AnalysisTexts : AnalysisReturns(a, md)
    \/ Render

Spec == Init /\ [][Next]_vars

\* The recorder hook with the handlers that call it, while the transcription
\* and analysis services do not answer.  The actions left out write nothing
\* that the hook or these handlers read, so the hook behaves under
\* SpecRecorder as it does under Spec.
NextRecorder ==
    \/ StartRecordingClick
    \/ \E d \in StopData : StopRecordingClick(d)
    \/ \E d \in StopData : ClearClick(d)
    \/ ToggleAudioSourceClick
    \/ \E s \in Sessions, o \in DisplayOutcomes : DisplayResult(s, o)
    \/ \E s \in Sessions, mic \in BOOLEAN, d \in StopData : MicResult(s, mic, d)
    \/ \E r \in Recorders : \E d \in TimerData(r) : TimerFires(r, d)
    \/ \E s \in Sessions, d \in StopData : ScreenTrackEnded(s, d)
    \/ \E r \in Recorders : RecorderOnStop(r)
    \/ Render

SpecRecorder == Init /\ [][NextRecorder]_vars

\* The whole program, with the services answering, over its first
\* MaxAppSessions recording sessions.
SessionsStarted == Cardinality({s \in Sessions : sessions[s].pc # "unused"})

NextApp ==
    \/ SessionsStarted < MaxAppSessions /\ StartRecordingClick
    \/ \E d \in StopData : StopRecordingClick(d)
    \/ \E d \in StopData : ClearClick(d)
    \/ ForceAnalyzeClick
    \/ ToggleAudioSourceClick
    \/ \E s \in Sessions, o \in DisplayOutcomes : DisplayResult(s, o)
    \/ \E s \in Sessions, mic \in BOOLEAN, d \in StopData : MicResult(s, mic, d)
    \/ \E r \in Recorders : \E d \in TimerData(r) : TimerFires(r, d)
    \/ \E s \in Sessions, d \in StopData : ScreenTrackEnded(s, d)
    \/ \E r \in Recorders : RecorderOnStop(r)
    \/ \E r \in Recorders : TranscriptionFails(r)
    \/ \E r \in Recorders, raw \in ResponseTexts : TranscriptionReturns(r, raw)
    \/ \E a \in Analyses : AnalysisFails(a)
    \/ \E a \in Analyses, md \in AnalysisTexts : AnalysisReturns(a, md)
    \/ Render

SpecApp == Init /\ [][NextApp]_vars

\* The program as under SpecApp while the user does not press Clear (handleClear
\* empties the transcript, and with it the growth that an analysis is owed
\* for), with the one thing the scheduler guarantees: a render that React has
\* scheduled runs.  Nothing is assumed of the user, the timers or the services.
NextLive ==
    \/ SessionsStarted < MaxAppSessions /\ StartRecordingClick
    \/ \E d \in StopData : StopRecordingClick(d)
    \/ ForceAnalyzeClick
    \/ ToggleAudioSourceClick
    \/ \E s \in Sessions, o \in DisplayOutcomes : DisplayResult(s, o)
    \/ \E s \in Sessions, mic \in BOOLEAN, d \in StopData : MicResult(s, mic, d)
    \/ \E r \in Recorders : \E d \in TimerData(r) : TimerFires(r, d)
    \/ \E s \in Sessions, d \in StopData : ScreenTrackEnded(s, d)
    \/ \E r \in Recorders : RecorderOnStop(r)
    \/ \E r \in Recorders : TranscriptionFails(r)
    \/ \E r \in Recorders, raw \in ResponseTexts : TranscriptionReturns(r, raw)
    \/ \E a \in Analyses : AnalysisFails(a)
    \/ \E a \in Analyses, md \in AnalysisTexts : AnalysisReturns(a, md)
    \/ Render

SpecLive == Init /\ [][NextLive]_vars /\ WF_vars(Render)

\* ================================================================ claims
\* The invocation that last set isRecordingRef: while isRecordingRef holds,
\* the one started last.
LatestSession == SessionsStarted

Obtained(session) ==
    (IF session.usingScreenAudio THEN {"screen"} ELSE {})
        \cup (IF session.tracks["mic"] = "live" THEN {"mic"} ELSE {})

SetupEnds(s) ==
    sessions[s].pc = "awaitMic" /\ sessions'[s].pc \in {"looping", "failed"}

\* ---- C1
C1_NoGap ==
    (isRecordingRef /\ LatestSession > 0 /\ sessions[LatestSession].pc = "looping")
        => \E r \in Recorders :
               recorders[r].state = "recording" /\ recorders[r].session = LatestSession

C1_TimerStep ==
    \A r \in Recorders :
        ( /\ recorders[r].timer /\ ~recorders'[r].timer
          /\ recorders[r].state = "recording"
          /\ isRecordingRef /\ recorders[r].session = LatestSession )
        => /\ recorders'[r].state = "inactive"
           /\ \E n \in Recorders :
                  /\ recorders[n].state = "unused"
                  /\ recorders'[n].state = "recording"
                  /\ recorders'[n].session = recorders[r].session

\* C1: while the session is active and its setup has completed, one of its
\* recorders is recording; and a timer that fires on a recording recorder of
\* the active session stops it and starts the next one in the same step.
C1_NoAudioDropped == []C1_NoGap /\ [][C1_TimerStep]_vars

C1_Witness ==
    /\ isRecordingRef
    /\ \E r, n \in Recorders :
           /\ recorders[r].session = LatestSession /\ recorders[n].session = LatestSession
           /\ recorders[r].state = "inactive" /\ ~recorders[r].timer
           /\ recorders[n].state = "recording"

\* ---- C2
OnStopRan(r) == recorders[r].state = "inactive" /\ ~recorders[r].stopEvt

\* C2: a recorder whose stop event has been handled with a non-empty blob has
\* caused exactly one onAudioChunk call and one transcribeAudio call, whatever
\* became of the transcription; any other recorder has caused none.
C2_SentExactlyOnce ==
    \A r \in Recorders :
        /\ recorders[r].chunkCalls = IF OnStopRan(r) /\ recorders[r].data THEN 1 ELSE 0
        /\ recorders[r].transcribeCalls = recorders[r].chunkCalls

C2_Witness ==
    \E r, n \in Recorders :
        /\ recorders[r].clip = "dropped" /\ recorders[r].transcribeCalls = 1
        /\ OnStopRan(n) /\ ~recorders[n].data /\ recorders[n].chunkCalls = 0

\* ---- C3
C3_SetupStep ==
    \A s \in Sessions :
        (SetupEnds(s) /\ ~sessions[s].interrupted /\ Obtained(sessions'[s]) # {})
        => /\ sessions'[s].pc = "looping"
           /\ recordingState' = "RECORDING"
           /\ mediaRecorderRef' # 0
           /\ recorders'[mediaRecorderRef'].state = "recording"
           /\ recorders'[mediaRecorderRef'].session = s
           /\ sessions'[s].mix = Obtained(sessions'[s])

\* C3: when startRecording, not cut short by stopRecording, ends its setup with
\* at least one audio source obtained, recordingState is RECORDING, a recorder
\* of this invocation is recording, and the mix holds exactly the sources obtained.
C3_PartialGrantsRecovered == [][C3_SetupStep]_vars

C3_Witness ==
    \E s \in Sessions :
        /\ sessions[s].pc = "looping" /\ ~sessions[s].interrupted
        /\ sessions[s].mix = {"screen"}
        /\ sessions[s].tracks["mic"] = "none"
        /\ recordingState = "RECORDING"
        /\ \E r \in Recorders : recorders[r].state = "recording" /\ recorders[r].session = s

\* ---- C4
C4_FailedSession ==
    \A s \in Sessions :
        sessions[s].pc = "failed"
        => /\ sessions[s].errors = 1
           /\ \A r \in Recorders : recorders[r].session # s

C4_SetupStep ==
    \A s \in Sessions :
        (SetupEnds(s) /\ Obtained(sessions'[s]) = {})
        => /\ sessions'[s].pc = "failed"
           /\ sessions'[s].errors = 1
           /\ recordingState' = "IDLE"

\* C4: a startRecording that obtains neither source ends failed with exactly
\* one 'error' message and recordingState IDLE, and no recorder is ever made
\* for it (so that onAudioChunk is never called for it).
C4_NoSourceFails == []C4_FailedSession /\ [][C4_SetupStep]_vars

C4_Witness ==
    \E s \in Sessions :
        /\ sessions[s].pc = "failed" /\ sessions[s].errors = 1
        /\ recordingState = "IDLE"

\* ---- C5
InFlight == {a \in Analyses : analyses[a].status = "inflight"}

AutoStarts(a) ==
    analyses[a].status = "none" /\ analyses'[a].status = "inflight" /\ analyses'[a].auto

\* C5: the effect starts an analysis only when the transcript is more than
\* ANALYSIS_TRIGGER_LENGTH characters longer than lastAnalyzedLength and no
\* analysis is in flight.
C5_AutoOnlyWhenGrownAndIdle ==
    [][\A a \in Analyses :
          AutoStarts(a)
          => /\ Length(fullTranscript) - lastAnalyzedLength > ANALYSIS_TRIGGER_LENGTH
             /\ InFlight = {}]_vars

\* The part of C5 that the code keeps: the growth, and the flag in place of
\* the requests in flight.
C5_AutoOnlyWhenGrownAndNotFlagged ==
    [][\A a \in Analyses :
          AutoStarts(a)
          => /\ Length(fullTranscript) - lastAnalyzedLength > ANALYSIS_TRIGGER_LENGTH
             /\ ~isAnalyzing]_vars

\* ---- C6
\* Nothing is pending: no prompt, recorder, timer, stop event, transcription,
\* analysis or render
Quiescent ==
    /\ \A s \in Sessions : sessions[s].pc \notin {"awaitDisplay", "awaitMic"}
    /\ \A r \in Recorders :
           /\ recorders[r].state # "recording"
           /\ ~recorders[r].timer
           /\ ~recorders[r].stopEvt
           /\ recorders[r].clip # "inflight"
    /\ InFlight = {}
    /\ rendered = View(AppState, recordingState, enableSystemAudio)

\* C6: once recording has stopped and nothing is pending any more, the last
\* analysis requested was given the whole transcript (its length is the one
\* recorded in lastAnalyzedLength).
C6_FinalTranscriptAnalyzed ==
    (Quiescent /\ recordingState = "IDLE" /\ Trim(fullTranscript) # <<>>)
        => lastAnalyzedLength = Length(fullTranscript)

\* ---- C7
RECURSIVE ChunkLines(_)
ChunkLines(chunks) ==
    IF chunks = <<>> THEN <<>>
    ELSE Concat(Concat(<<Run("\n", 1)>>, Head(chunks).text), ChunkLines(Tail(chunks)))

C7_TranscriptIsChunks == fullTranscript = ChunkLines(transcriptChunks)

C7_ChunkStep ==
    \A r \in Recorders :
        (recorders[r].clip = "inflight" /\ recorders'[r].clip = "ok")
        => /\ Len(transcriptChunks') = Len(transcriptChunks) + 1
           /\ SubSeq(transcriptChunks', 1, Len(transcriptChunks)) = transcriptChunks

\* C7: fullTranscript is the concatenation of "\n" + text over transcriptChunks
\* in every state, and a transcription that returns a non-empty text adds
\* exactly one chunk, at the end.
C7_TranscriptConsistent == []C7_TranscriptIsChunks /\ [][C7_ChunkStep]_vars

C7_Witness ==
    /\ Len(transcriptChunks) = 1
    /\ \A r \in Recorders : recorders[r].clip = "ok"
    /\ fullTranscript # <<>>

\* ---- C8
\* C8: an invocation started by a render in 'Microphone Only' mode does not
\* call getDisplayMedia.
C8_MicOnlyNeverRequestsDisplay ==
    [][\A s \in Sessions :
          ( /\ sessions[s].pc = "unused" /\ sessions'[s].pc # "unused"
            /\ ~rendered.enableSystemAudio )
          => ~sessions'[s].displayRequested]_vars

\* ---- C9
\* C9: at most one analysis request is in flight.
C9_AtMostOneInFlight == Cardinality(InFlight) <= 1

\* ---- C10
AnalyzeInputs == ResponseTexts \cup {<<Run("\n", 1), Run("a", 1)>>}

\* C10: with the API key missing, every transcribeAudio call has ended with
\* the missing-key error and no request, analyzeTranscript ends so for every
\* input, the empty one included, and the transcript, the chunks and the
\* analysis result are as they were.
C10_MissingKeyFailsFirst ==
    ~apiKey
    => /\ \A r \in Recorders :
              /\ recorders[r].clip \in {"none", "keyMissing"}
              /\ recorders[r].transcribeCalls = 1 => recorders[r].clip = "keyMissing"
       /\ \A t \in AnalyzeInputs : analyzeTranscript(apiKey, t) = "keyMissing"
       /\ InFlight = {}
       /\ fullTranscript = <<>> /\ transcriptChunks = <<>> /\ analysisResult = ""

C10_Witness ==
    /\ ~apiKey
    /\ \E r \in Recorders :
           recorders[r].transcribeCalls = 1 /\ recorders[r].clip = "keyMissing"

\* ---- C11
Released(session) ==
    /\ \A k \in TrackKinds : session.tracks[k] # "live"
    /\ session.ctx # "running"

\* C11: whenever recordingState is IDLE, every track the hook acquired has
\* been stopped, no AudioContext it created is open and no MediaRecorder is
\* recording.
C11_IdleMeansReleased ==
    recordingState = "IDLE"
    => /\ \A s \in Sessions : Released(sessions[s])
       /\ \A r \in Recorders : recorders[r].state # "recording"

\* ---- C12
Recording == {r \in Recorders : recorders[r].state = "recording"}

\* The chunk loop of invocation s is running: one of its recorders is
\* recording with its timer pending
LoopRunning(s) ==
    \E r \in Recorders :
        recorders[r].session = s /\ recorders[r].state = "recording" /\ recorders[r].timer

\* C12: at most one MediaRecorder is recording and at most one invocation's
\* chunk loop is running.
C12_OneRecorderOneLoop ==
    /\ Cardinality(Recording) <= 1
    /\ Cardinality({s \in Sessions : LoopRunning(s)}) <= 1

\* The part of C12 that the guard on line 18 keeps: startRecording while
\* isRecordingRef is set changes nothing in the hook.
C12_StartWhileActiveIsNoOp ==
    [][(isRecordingRef /\ isRecordingRef'
            /\ \E s \in Sessions : sessions[s].pc = "unused" /\ sessions'[s].pc # "unused")
        => FALSE]_vars

\* ---- C13
\* Recorders are created in the order of their numbers (FreeRecorder), and a
\* clip is recorded by one recorder: clip a was recorded before clip b exactly
\* when a < b.
RecordedBefore(a, b) == a < b

\* C13: the chunks of any two clips stand in transcriptChunks (and, the
\* transcript being the chunks joined, in fullTranscript) in the order in which
\* the clips were recorded.
C13_ChunksInRecordedOrder ==
    \A i, j \in DOMAIN transcriptChunks :
        RecordedBefore(transcriptChunks[j].clip, transcriptChunks[i].clip) => j < i

\* ---- C14
\* stopRecording is called while the session is active
StopRecordingStep == isRecordingRef /\ ~isRecordingRef'

\* recorder r is stopped in this step; its stop event is queued
StoppedInStep(r) ==
    /\ recorders[r].state = "recording"
    /\ recorders'[r].state = "inactive"
    /\ recorders'[r].stopEvt

\* the stop event of r is handled in this step: its data, if any, goes to
\* onAudioChunk, for the first and only time
DeliveredInStep(r) ==
    (recorders[r].stopEvt /\ ~recorders'[r].stopEvt)
    => /\ recorders[r].chunkCalls = 0
       /\ recorders'[r].chunkCalls = IF recorders[r].data THEN 1 ELSE 0

\* the timer of a recorder that is no longer recording starts nothing
TimerStartsNothing(r) ==
    (recorders[r].timer /\ ~recorders'[r].timer /\ recorders[r].state # "recording")
    => \A n \in Recorders : recorders[n].state = "unused" => recorders'[n].state = "unused"

\* C14: stopRecording, called while a recorder is recording, stops that
\* recorder; the stop event of a recorder delivers its non-empty data to
\* onAudioChunk exactly once; and the timer left pending starts no segment.
C14_SegmentInProgressKept ==
    [][\A r \in Recorders :
          /\ (StopRecordingStep /\ recorders[r].state = "recording") => StoppedInStep(r)
          /\ DeliveredInStep(r)
          /\ TimerStartsNothing(r)]_vars

\* The part of C14 that the code keeps: the same, for the recorder that
\* mediaRecorderRef holds.
C14_CurrentSegmentKept ==
    [][\A r \in Recorders :
          /\ (StopRecordingStep /\ recorders[r].state = "recording" /\ mediaRecorderRef = r)
                 => StoppedInStep(r)
          /\ DeliveredInStep(r)
          /\ TimerStartsNothing(r)]_vars

\* ---- C15
\* C15: no chunk of transcriptChunks, and so no line of fullTranscript, comes
\* from a clip whose recorder was made before handleClear last ran.
C15_NothingFromBeforeClear ==
    \A i \in DOMAIN transcriptChunks : transcriptChunks[i].clip \notin clearedClips

\* ---- C16
GrownAndIdle ==
    /\ Length(fullTranscript) - lastAnalyzedLength > ANALYSIS_TRIGGER_LENGTH
    /\ InFlight = {}

====
